---------------------------- MODULE Spec2Model ----------------------------
(***************************************************************************)
(* A model of the lime front end and code generator: Environment.py (the   *)
(* scope chain), Compiler.py (the tree-walking generator), Parser.py (the  *)
(* Pratt parser) and main.py (the driver).                                 *)
(*                                                                         *)
(* Python's None is the empty sequence <<>> where a value may be absent;   *)
(* a present value x is <<x>> (NoneOr) or the value itself where its shape *)
(* tells it apart.                                                         *)
(***************************************************************************)
EXTENDS Integers, Sequences, FiniteSets, TLC

VARIABLES heap, looked, compiler, parser, driver

vars == <<heap, looked, compiler, parser, driver>>

None == <<>>

Some(x) == <<x>>

(***************************************************************************)
(* Bounds of the model.                                                    *)
(***************************************************************************)
MaxEnvs == 3

MaxDefined == 3

MaxStmts == 4

MaxDepth == 2

MaxInfix == 1

MaxTokens == 3

MaxOps == 2

MaxBody == 2

MaxTop == 2

(***************************************************************************)
(* llvmlite types and values.  A type is a base with a pointer depth; a    *)
(* value is an instruction result, a constant, a function or a global.     *)
(***************************************************************************)
Ty(b) == [base |-> b, ptr |-> 0]

Int32 == Ty("i32")

Float32 == Ty("float")

Bool1 == Ty("i1")

NoType == Ty("none")

PointerTo(t) == [t EXCEPT !.ptr = @ + 1]

Pointee(t) == [t EXCEPT !.ptr = @ - 1]

IsPointer(t) == t.ptr > 0

Val(k, i, t) == [kind |-> k, id |-> i, type |-> t]

NoValue == Val("none", 0, NoType)

Names == {"a", "f"}

(***************************************************************************)
(* Environment.py                                                          *)
(***************************************************************************)
EmptyRecords == [n \in {} |-> None]

\* Environment.__init__: records default to {}, parent to None, name "global"
NewEnvironment(parent) == [records |-> EmptyRecords, parent |-> parent]

\* Environment.define: self.records[name] = (value, __type)
Define(h, e, name, value, type) ==
    [h EXCEPT ![e].records =
        [n \in DOMAIN @ \cup {name} |->
            IF n = name THEN [value |-> value, type |-> type] ELSE @[n]]]

RECURSIVE OuterFirstResolve(_, _, _)
\* a resolution that asks the parent before the local map
OuterFirstResolve(h, e, name) ==
    LET up == IF h[e].parent # None
              THEN OuterFirstResolve(h, h[e].parent[1], name)
              ELSE None
    IN  IF up # None THEN up
        ELSE IF name \in DOMAIN h[e].records THEN Some(h[e].records[name])
        ELSE None

RECURSIVE Resolve(_, _, _)
\* Environment.__resolve
Resolve(h, e, name) ==
    IF name \in DOMAIN h[e].records
    THEN Some(h[e].records[name])
    ELSE IF h[e].parent # None
         THEN Resolve(h, h[e].parent[1], name)
         ELSE None

\* Environment.lookup
Lookup(h, e, name) == Resolve(h, e, name)

(***************************************************************************)
(* Environments on their own: any environments, any defines, any lookups.  *)
(***************************************************************************)
ProbeValues == {Val("inst", 1, PointerTo(Int32)), Val("inst", 2, PointerTo(Float32))}

ProbeType(v) == Pointee(v.type)

NotLooked == [env |-> 0, name |-> "", result |-> None]

IdleCompiler == [status |-> "idle"]

IdleParser == [status |-> "idle"]

IdleDriver == [pc |-> "idle"]

EnvInit ==
    /\ heap = <<NewEnvironment(None)>>
    /\ looked = NotLooked
    /\ compiler = IdleCompiler
    /\ parser = IdleParser
    /\ driver = IdleDriver

EnvNew ==
    /\ Len(heap) < MaxEnvs
    /\ \E p \in {None} \cup {Some(i) : i \in 1..Len(heap)} :
          heap' = Append(heap, NewEnvironment(p))
    /\ looked' = NotLooked
    /\ UNCHANGED <<compiler, parser, driver>>

DefinedCount(h) ==
    Cardinality({<<e, n>> \in (1..Len(h)) \X Names : n \in DOMAIN h[e].records})

EnvDefine ==
    /\ \E e \in 1..Len(heap), n \in Names, v \in ProbeValues :
          /\ n \in DOMAIN heap[e].records \/ DefinedCount(heap) < MaxDefined
          /\ heap' = Define(heap, e, n, v, ProbeType(v))
    /\ looked' = NotLooked
    /\ UNCHANGED <<compiler, parser, driver>>

EnvLookup ==
    /\ \E e \in 1..Len(heap), n \in Names :
          looked' = [env |-> e, name |-> n, result |-> Lookup(heap, e, n)]
    /\ UNCHANGED <<heap, compiler, parser, driver>>

EnvNext == EnvNew \/ EnvDefine \/ EnvLookup

SpecEnv == EnvInit /\ [][EnvNext]_vars

RECURSIVE Chain(_, _)
\* the environments from e outward, nearest first
Chain(h, e) ==
    IF h[e].parent = None THEN <<e>> ELSE <<e>> \o Chain(h, h[e].parent[1])

Defining(h, e, name) ==
    {i \in 1..Len(Chain(h, e)) : name \in DOMAIN h[Chain(h, e)[i]].records}

Nearest(h, e, name) ==
    Chain(h, e)[CHOOSE i \in Defining(h, e, name) :
                    \A j \in Defining(h, e, name) : i <= j]

\* C3: a lookup returns the pair of the nearest environment on the receiver's
\* chain that defines the name, and None when no environment on it does.
C3_LookupNearest ==
    looked.env # 0 =>
        IF Defining(heap, looked.env, looked.name) = {}
        THEN looked.result = None
        ELSE looked.result =
                Some(heap[Nearest(heap, looked.env, looked.name)].records[looked.name])

\* a lookup on an inner environment found the inner definition although an
\* outer environment defines the same name with another pair
C3_Witness ==
    /\ looked.env # 0
    /\ Cardinality(Defining(heap, looked.env, looked.name)) >= 2
    /\ LET c == Chain(heap, looked.env)
       IN  /\ looked.name \in DOMAIN heap[c[1]].records
           /\ looked.name \in DOMAIN heap[c[2]].records
           /\ heap[c[1]].records[looked.name] # heap[c[2]].records[looked.name]
           /\ looked.result = Some(heap[c[1]].records[looked.name])

(***************************************************************************)
(* AST nodes (AST.py): records tagged with the node kind in "type".         *)
(***************************************************************************)
IntegerLiteral(v) == [type |-> "IntegerLiteral", value |-> v]

FloatLiteral(v) == [type |-> "FloatLiteral", value |-> v]

BooleanLiteral(v) == [type |-> "BooleanLiteral", value |-> v]

IdentifierLiteral(v) == [type |-> "IdentifierLiteral", value |-> v]

InfixExpression(op, l, r) ==
    [type |-> "InfixExpression", operator |-> op, left_node |-> l, right_node |-> r]

CallExpression(fn) == [type |-> "CallExpression", function |-> fn, arguments |-> <<>>]

ExpressionStatement(e) == [type |-> "ExpressionStatement", expr |-> e]

LetStatement(n, vt, e) ==
    [type |-> "LetStatement", name |-> n, value_type |-> vt, value |-> e]

AssignStatement(n, e) == [type |-> "AssignStatement", ident |-> n, right_value |-> e]

ReturnStatement(e) == [type |-> "ReturnStatement", return_value |-> e]

BlockStatement(ss) == [type |-> "BlockStatement", statements |-> ss]

FunctionStatement(n, rt, b) ==
    [type |-> "FunctionStatement", name |-> n, parameters |-> <<>>,
     return_type |-> rt, body |-> b]

Program(ss) == [type |-> "Program", statements |-> ss]

\* an absent node: Python's None where a node is expected
NullNode == [type |-> "None"]

(***************************************************************************)
(* Compiler.py.  The Compiler object is the record "compiler": env and     *)
(* builder are self.env and self.builder (an index into envs; the number   *)
(* of the function whose entry block the builder was made for, 0 for the   *)
(* block-less IRBuilder() of __init__), module the functions declared in   *)
(* self.module, ir the instructions handed to the builders, errors         *)
(* self.errors.  stack holds the locals of the active calls of             *)
(* __visit_function_statement.  status is "raised" once a Python exception *)
(* left compile().  events, last and dispatched record what happened, for  *)
(* the properties.                                                         *)
(***************************************************************************)
Ok(c) == c.status = "running"

Raise(c) == [c EXCEPT !.status = "raised"]

\* Compiler.__init__: self.type_map
TypeMap == [int |-> Int32, float |-> Float32, bool |-> Bool1]

FunctionType(ret) ==
    Ty(CASE ret.base = "i32" -> "fn_i32"
         [] ret.base = "float" -> "fn_float"
         [] OTHER -> "fn_i1")

RV(c, v, t) == [c |-> c, value |-> v, type |-> t]

\* ir.Constant(Type, value)
Constant(t, v) == Val("const", v, t)

\* an IRBuilder inserting an instruction: needs a block to insert into
Emit(c, op, a, b, t) ==
    IF c.builder = 0
    THEN RV(Raise(c), NoValue, NoType)
    ELSE RV([c EXCEPT !.ir = Append(@, [op |-> op, block |-> c.builder,
                                          a |-> a, b |-> b, type |-> t])],
            Val("inst", Len(c.ir) + 1, t), t)

\* self.builder.alloca(Type)
Alloca(c, t) ==
    IF t = NoType THEN RV(Raise(c), NoValue, NoType)
    ELSE Emit(c, "alloca", NoValue, NoValue, PointerTo(t))

\* self.builder.store(value, ptr): the pointee must be the value's type
Store(c, v, p) ==
    IF v = NoValue \/ ~IsPointer(p.type) \/ Pointee(p.type) # v.type
    THEN RV(Raise(c), NoValue, NoType)
    ELSE Emit(c, "store", v, p, NoType)

\* self.builder.load(ptr)
Load(c, p) ==
    IF ~IsPointer(p.type) THEN RV(Raise(c), NoValue, NoType)
    ELSE Emit(c, "load", p, NoValue, Pointee(p.type))

\* self.builder.add/sub/mul/sdiv/srem/fadd/...: operands of one type
Binop(c, op, l, r) ==
    IF l = NoValue \/ r = NoValue \/ l.type # r.type
    THEN RV(Raise(c), NoValue, NoType)
    ELSE Emit(c, op, l, r, l.type)

\* self.builder.icmp_signed / fcmp_ordered: the result is an i1
Compare(c, op, l, r) ==
    IF l = NoValue THEN RV(Raise(c), NoValue, NoType)
    ELSE Emit(c, op, l, r, Bool1)

\* self.builder.ret(value): the block must not have a terminator yet
Ret(c, v) ==
    IF c.builder \in c.terminated THEN RV(Raise(c), NoValue, NoType)
    ELSE LET e == Emit(c, "ret", v, NoValue, NoType)
         IN  IF Ok(e.c)
             THEN RV([e.c EXCEPT !.terminated = @ \cup {c.builder}], e.value, e.type)
             ELSE e

\* self.builder.call(func, args): func must be a function
Call(c, f) ==
    IF f.kind # "func" THEN RV(Raise(c), NoValue, NoType)
    ELSE Emit(c, "call", f, NoValue, c.module[f.id].ret)

IsIntType(t) == t.ptr = 0 /\ t.base \in {"i32", "i1"}

IsFloatType(t) == t.ptr = 0 /\ t.base = "float"

Arithmetic == {"+", "-", "*", "/", "%"}

Comparisons == {"<", "<=", ">", ">=", "==", "!="}

Operators == Arithmetic \cup Comparisons \cup {"^"}

IntInstr(op) ==
    CASE op = "+" -> "add" [] op = "-" -> "sub" [] op = "*" -> "mul"
      [] op = "/" -> "sdiv" [] op = "%" -> "srem"
      [] op \in Comparisons -> "icmp_signed"
      [] OTHER -> "none"

FloatInstr(op) ==
    CASE op = "+" -> "fadd" [] op = "-" -> "fsub" [] op = "*" -> "fmul"
      [] op = "/" -> "fdiv" [] op = "%" -> "frem"
      [] op \in Comparisons -> "fcmp_ordered"
      [] OTHER -> "none"

Selection(fam, ins, t) == [family |-> fam, instr |-> ins, type |-> t]

\* a dispatch that takes only 32-bit integers for the integer family
StrictSelect(op, lt, rt) ==
    IF rt = Int32 /\ lt = Int32
    THEN Selection("int", IntInstr(op), IF op \in Comparisons THEN Bool1 ELSE Int32)
    ELSE IF IsFloatType(rt) /\ IsFloatType(lt)
    THEN Selection("float", FloatInstr(op), IF op \in Comparisons THEN Bool1 ELSE Float32)
    ELSE Selection("none", "none", NoType)

\* a dispatch that lets a float pair fall into the integer family
LooseSelect(op, lt, rt) ==
    IF (IsIntType(rt) \/ IsFloatType(rt)) /\ (IsIntType(lt) \/ IsFloatType(lt))
    THEN Selection("int", IntInstr(op), IF op \in Comparisons THEN Bool1 ELSE Int32)
    ELSE Selection("none", "none", NoType)

\* Compiler.__visit_infix_expression: the two isinstance tests and the matches
Select(op, lt, rt) ==
    IF IsIntType(rt) /\ IsIntType(lt)
    THEN Selection("int", IntInstr(op), IF op \in Comparisons THEN Bool1 ELSE Int32)
    ELSE IF IsFloatType(rt) /\ IsFloatType(lt)
    THEN Selection("float", FloatInstr(op), IF op \in Comparisons THEN Bool1 ELSE Float32)
    ELSE Selection("none", "none", NoType)

Dispatched(c, op, lt, rt, sel, v) ==
    [c EXCEPT !.dispatched = Append(@, [operator |-> op, left_type |-> lt,
                                         right_type |-> rt, family |-> sel.family,
                                         instr |-> sel.instr, type |-> sel.type,
                                         value |-> v])]

RECURSIVE ResolveValue(_, _), VisitInfixExpression(_, _)

\* Compiler.__visit_call_expression
VisitCallExpression(c, node) ==
    LET found == Lookup(c.envs, c.env, node.function.value)
    IN  IF found = None
        THEN RV(Raise(c), NoValue, NoType)
        ELSE LET ret == Call(c, found[1].value)
             IN  RV(ret.c, ret.value, found[1].type)

\* Compiler.__visit_infix_expression
VisitInfixExpression(c, node) ==
    LET l == ResolveValue(c, node.left_node)
    IN  IF ~Ok(l.c) THEN l
        ELSE
        LET r == ResolveValue(l.c, node.right_node)
        IN  IF ~Ok(r.c) THEN r
            ELSE
            LET sel == Select(node.operator, l.type, r.type)
                out == IF sel.instr = "none"
                       THEN RV(r.c, NoValue, sel.type)
                       ELSE IF sel.instr \in {"icmp_signed", "fcmp_ordered"}
                       THEN Compare(r.c, sel.instr, l.value, r.value)
                       ELSE Binop(r.c, sel.instr, l.value, r.value)
            IN  RV(Dispatched(out.c, node.operator, l.type, r.type, sel, out.value),
                   out.value, sel.type)

\* Compiler.__resolve_value
ResolveValue(c, node) ==
    CASE node.type = "IntegerLiteral" ->
            RV(c, Constant(TypeMap["int"], node.value), TypeMap["int"])
      [] node.type = "FloatLiteral" ->
            RV(c, Constant(TypeMap["float"], node.value), TypeMap["float"])
      [] node.type = "IdentifierLiteral" ->
            LET found == Lookup(c.envs, c.env, node.value)
            IN  IF found = None
                THEN RV(Raise(c), NoValue, NoType)
                ELSE LET ld == Load(c, found[1].value)
                     IN  RV(ld.c, ld.value, found[1].type)
      [] node.type = "BooleanLiteral" ->
            RV(c, Constant(Bool1, IF node.value THEN 1 ELSE 0), Bool1)
      [] node.type = "InfixExpression" -> VisitInfixExpression(c, node)
      [] node.type = "CallExpression" -> VisitCallExpression(c, node)
      [] OTHER -> RV(Raise(c), NoValue, NoType)

Event(c, kind, env, name, ptr, alloca) ==
    [c EXCEPT !.events = Append(@, [kind |-> kind, env |-> env, name |-> name,
                                     ptr |-> ptr, alloca |-> alloca])]

\* Compiler.__visit_expression_statement, with compile()'s dispatch on the expression
VisitExpressionStatement(c, node) ==
    CASE node.expr.type = "InfixExpression" -> VisitInfixExpression(c, node.expr).c
      [] node.expr.type = "CallExpression" -> VisitCallExpression(c, node.expr).c
      [] node.expr.type = "None" -> Raise(c)
      [] OTHER -> c

\* a let that looks only at the current environment's own map
ShadowingLetStatement(c, node) ==
    LET name == node.name.value
        r == ResolveValue(c, node.value)
    IN  IF ~Ok(r.c) THEN r.c
        ELSE
        LET p == Alloca(r.c, r.type)
        IN  IF ~Ok(p.c) THEN p.c
            ELSE
            LET st == Store(p.c, r.value, p.value)
            IN  IF ~Ok(st.c) THEN st.c
                ELSE Event([st.c EXCEPT !.envs =
                                Define(@, st.c.env, name, p.value, r.type)],
                           "let", c.env, name, p.value, TRUE)

\* Compiler.__visit_let_statement
VisitLetStatement(c, node) ==
    LET name == node.name.value
        r == ResolveValue(c, node.value)
    IN  IF ~Ok(r.c) THEN r.c
        ELSE IF Lookup(r.c.envs, r.c.env, name) = None
        THEN
            LET p == Alloca(r.c, r.type)
            IN  IF ~Ok(p.c) THEN p.c
                ELSE
                LET st == Store(p.c, r.value, p.value)
                IN  IF ~Ok(st.c) THEN st.c
                    ELSE Event([st.c EXCEPT !.envs =
                                    Define(@, st.c.env, name, p.value, r.type)],
                               "let", c.env, name, p.value, TRUE)
        ELSE
            LET ptr == Lookup(r.c.envs, r.c.env, name)[1].value
                st == Store(r.c, r.value, ptr)
            IN  IF ~Ok(st.c) THEN st.c
                ELSE Event(st.c, "let", c.env, name, ptr, FALSE)

\* Compiler.__visit_return_statement
VisitReturnStatement(c, node) ==
    LET r == ResolveValue(c, node.return_value)
    IN  IF ~Ok(r.c) THEN r.c ELSE Ret(r.c, r.value).c

Undeclared(name) ==
    <<"COMPILE ERROR: Identifier", name, "has not been declared before it was re-assigned">>

\* Compiler.__visit_assign_statement
VisitAssignStatement(c, node) ==
    LET name == node.ident.value
        r == ResolveValue(c, node.right_value)
    IN  IF ~Ok(r.c) THEN r.c
        ELSE IF Lookup(r.c.envs, r.c.env, name) = None
        THEN [r.c EXCEPT !.errors = Append(@, Undeclared(name))]
        ELSE Store(r.c, r.value, Lookup(r.c.envs, r.c.env, name)[1].value).c

ModuleNames(c) == {"true", "false"} \cup {c.module[i].name : i \in 1..Len(c.module)}

\* a function statement that swaps the builder but compiles the body in the
\* enclosing environment
SharedEnvPrologue(c, node) ==
    LET name == node.name.value
    IN  IF node.return_type \notin DOMAIN TypeMap \/ name \in ModuleNames(c)
        THEN Raise(c)
        ELSE
        LET return_type == TypeMap[node.return_type]
            k == Len(c.module) + 1
            func == Val("func", k, PointerTo(FunctionType(return_type)))
        IN  [c EXCEPT
                !.module = Append(@, [name |-> name, ret |-> return_type]),
                !.stack = Append(@, [name |-> name, func |-> func,
                                     return_type |-> return_type,
                                     previous_builder |-> c.builder,
                                     previous_env |-> c.env,
                                     entry_env |-> c.last.env,
                                     entry_builder |-> c.last.builder,
                                     entry_envs |-> Len(c.last.envs),
                                     declared_type |-> node.return_type]),
                !.builder = k,
                !.envs = Define(c.envs, c.env, name, func, return_type)]

\* Compiler.__visit_function_statement, up to the call of self.compile(body)
FunctionPrologue(c, node) ==
    LET name == node.name.value
    IN  IF node.return_type \notin DOMAIN TypeMap \/ name \in ModuleNames(c)
        THEN Raise(c)
        ELSE
        LET return_type == TypeMap[node.return_type]
            k == Len(c.module) + 1
            func == Val("func", k, PointerTo(FunctionType(return_type)))
            child == Len(c.envs) + 1
        IN  [c EXCEPT
                !.module = Append(@, [name |-> name, ret |-> return_type]),
                !.stack = Append(@, [name |-> name, func |-> func,
                                     return_type |-> return_type,
                                     previous_builder |-> c.builder,
                                     previous_env |-> c.env,
                                     entry_env |-> c.last.env,
                                     entry_builder |-> c.last.builder,
                                     entry_envs |-> Len(c.last.envs),
                                     declared_type |-> node.return_type]),
                !.builder = k,
                !.env = child,
                !.envs = Define(Append(c.envs, NewEnvironment(Some(c.env))),
                                child, name, func, return_type)]

LetNames(c, e) ==
    {c.events[i].name : i \in {j \in 1..Len(c.events) :
        c.events[j].kind = "let" /\ c.events[j].env = e /\ c.events[j].alloca}}

\* a function statement that returns without restoring the environment
NoRestoreEpilogue(c) ==
    LET fr == c.stack[Len(c.stack)]
    IN  Event([c EXCEPT
                  !.envs = Define(c.envs, c.env, fr.name, fr.func, fr.return_type),
                  !.builder = fr.previous_builder,
                  !.stack = SubSeq(@, 1, Len(@) - 1),
                  !.last.torn = LetNames(c, c.env),
                  !.last.entry_env = fr.entry_env,
                  !.last.entry_builder = fr.entry_builder,
                  !.last.declared_type = fr.declared_type,
                  !.last.func = fr.func],
              "fn", c.env, fr.name, fr.func, FALSE)

\* Compiler.__visit_function_statement, after self.compile(body) returned
FunctionEpilogue(c) ==
    LET fr == c.stack[Len(c.stack)]
    IN  Event([c EXCEPT
                  !.env = fr.previous_env,
                  !.envs = Define(c.envs, fr.previous_env, fr.name, fr.func,
                                  fr.return_type),
                  !.builder = fr.previous_builder,
                  !.stack = SubSeq(@, 1, Len(@) - 1),
                  !.last.torn = LetNames(c, c.env),
                  !.last.entry_env = fr.entry_env,
                  !.last.entry_builder = fr.entry_builder,
                  !.last.declared_type = fr.declared_type,
                  !.last.func = fr.func],
              "fn", fr.previous_env, fr.name, fr.func, FALSE)

StatementName(node) ==
    CASE node.type \in {"LetStatement", "FunctionStatement"} -> node.name.value
      [] node.type = "AssignStatement" -> node.ident.value
      [] OTHER -> ""

\* what the generator looked like when the visit of a statement began
Begin(c, kind, name) ==
    [c EXCEPT !.dispatched = <<>>,
              !.last = [kind |-> kind, name |-> name, env |-> c.env,
                        builder |-> c.builder, ir |-> c.ir, errors |-> c.errors,
                        envs |-> c.envs,
                        declared |-> name # "" /\ Lookup(c.envs, c.env, name) # None,
                        torn |-> {}, entry_env |-> 0, entry_builder |-> 0,
                        declared_type |-> "", func |-> NoValue]]

\* Compiler.compile: the dispatch on the node kind (a function statement's
\* body is compiled by the steps that follow its prologue)
Compile(c, node) ==
    LET b == Begin([c EXCEPT !.visited = @ + 1], node.type, StatementName(node))
    IN  CASE node.type = "ExpressionStatement" -> VisitExpressionStatement(b, node)
          [] node.type = "LetStatement" -> VisitLetStatement(b, node)
          [] node.type = "FunctionStatement" -> FunctionPrologue(b, node)
          [] node.type = "ReturnStatement" -> VisitReturnStatement(b, node)
          [] node.type = "AssignStatement" -> VisitAssignStatement(b, node)
          [] OTHER -> b

\* the end of a function statement's body: back in __visit_function_statement
Leave(c) == FunctionEpilogue(Begin(c, "FunctionEnd", c.stack[Len(c.stack)].name))

TrueVar == Val("global", 1, PointerTo(Bool1))

FalseVar == Val("global", 2, PointerTo(Bool1))

\* Compiler.__init__ and __initialize_builtins
NewCompiler ==
    [status |-> "running",
     env |-> 1,
     builder |-> 0,
     envs |-> Define(Define(<<NewEnvironment(None)>>, 1, "true", TrueVar, TrueVar.type),
                     1, "false", FalseVar, FalseVar.type),
     module |-> <<>>,
     ir |-> <<>>,
     terminated |-> {},
     errors |-> <<>>,
     stack |-> <<>>,
     work |-> <<>>,
     events |-> <<>>,
     dispatched |-> <<>>,
     visited |-> 0,
     last |-> [kind |-> "", name |-> "", env |-> 1, builder |-> 0, ir |-> <<>>,
               errors |-> <<>>, envs |-> <<>>, declared |-> FALSE, torn |-> {},
               entry_env |-> 0, entry_builder |-> 0, declared_type |-> "",
               func |-> NoValue]]

(***************************************************************************)
(* The generator on its own: it is handed the statements of a program one  *)
(* after the other, any statement the AST can hold.                        *)
(***************************************************************************)
FnNames == {"f", "g"}

ReturnTypes == {"int", "float"}

SimpleExprs ==
    {IntegerLiteral(1), FloatLiteral(25), IdentifierLiteral("a"), IdentifierLiteral("f"),
     InfixExpression("+", IdentifierLiteral("a"), IntegerLiteral(1)),
     CallExpression(IdentifierLiteral("f"))}

CompileInit ==
    /\ compiler = NewCompiler
    /\ heap = <<>>
    /\ looked = NotLooked
    /\ parser = IdleParser
    /\ driver = IdleDriver

MayVisit == Ok(compiler) /\ compiler.visited < MaxStmts

Rest == UNCHANGED <<heap, looked, parser, driver>>

CompileLet ==
    /\ MayVisit
    /\ \E n \in Names, e \in SimpleExprs :
          compiler' = Compile(compiler, LetStatement(IdentifierLiteral(n), "int", e))
    /\ Rest

CompileAssign ==
    /\ MayVisit
    /\ \E n \in Names, e \in SimpleExprs :
          compiler' = Compile(compiler, AssignStatement(IdentifierLiteral(n), e))
    /\ Rest

CompileReturn ==
    /\ MayVisit
    /\ \E e \in SimpleExprs : compiler' = Compile(compiler, ReturnStatement(e))
    /\ Rest

CompileExpression ==
    /\ MayVisit
    /\ \E e \in SimpleExprs : compiler' = Compile(compiler, ExpressionStatement(e))
    /\ Rest

CompileFunction ==
    /\ MayVisit
    /\ Len(compiler.stack) < MaxDepth
    /\ \E n \in FnNames, rt \in ReturnTypes :
          compiler' = Compile(compiler,
                              FunctionStatement(IdentifierLiteral(n), rt, BlockStatement(<<>>)))
    /\ Rest

CompileFunctionEnd ==
    /\ Ok(compiler)
    /\ compiler.stack # <<>>
    /\ compiler' = Leave(compiler)
    /\ Rest

CompileProgramEnd ==
    /\ Ok(compiler)
    /\ compiler.stack = <<>>
    /\ compiler' = [compiler EXCEPT !.status = "done"]
    /\ Rest

CompileNext ==
    \/ CompileLet
    \/ CompileAssign
    \/ CompileReturn
    \/ CompileExpression
    \/ CompileFunction
    \/ CompileFunctionEnd
    \/ CompileProgramEnd

SpecCompile == CompileInit /\ [][CompileNext]_vars

(***************************************************************************)
(* Properties of the generator.                                            *)
(***************************************************************************)
LetPairs ==
    {<<i, j>> \in (1..Len(compiler.events)) \X (1..Len(compiler.events)) :
        /\ i < j
        /\ compiler.events[i].kind = "let"
        /\ compiler.events[j].kind = "let"
        /\ compiler.events[i].env = compiler.events[j].env
        /\ compiler.events[i].name = compiler.events[j].name}

JustLet(j) ==
    /\ j = Len(compiler.events)
    /\ compiler.last.kind = "LetStatement"
    /\ compiler.status = "running"

SameHandle(i, j) ==
    /\ ~compiler.events[j].alloca
    /\ compiler.events[j].ptr = compiler.events[i].ptr
    /\ compiler.ir[Len(compiler.ir)].op = "store"
    /\ JustLet(j) =>
          /\ compiler.ir[Len(compiler.ir)].b = compiler.events[i].ptr
          /\ Lookup(compiler.envs, compiler.env, compiler.events[j].name)
                = Some([value |-> compiler.events[i].ptr,
                        type |-> Lookup(compiler.last.envs, compiler.last.env,
                                        compiler.events[j].name)[1].type])

\* C4 as stated: of two let statements for one name generated in one
\* environment, the later allocates nothing and stores into the handle the
\* earlier one used, which the environment still maps the name to.
C4_AnyLaterLet == \A p \in LetPairs : JustLet(p[2]) => SameHandle(p[1], p[2])

NoFunctionBetween(i, j) ==
    \A k \in (i + 1)..(j - 1) :
        ~ /\ compiler.events[k].kind = "fn"
          /\ compiler.events[k].env = compiler.events[i].env
          /\ compiler.events[k].name = compiler.events[i].name

\* C4, amended: of two let statements for one name generated in one
\* environment with no function statement of that name completed in that
\* environment between them, the later allocates nothing and stores into the
\* handle the earlier one used, which the environment still maps the name to.
C4_LaterLetSameHandle ==
    \A p \in LetPairs :
        JustLet(p[2]) /\ NoFunctionBetween(p[1], p[2]) => SameHandle(p[1], p[2])

\* a second let for a name has just stored into the slot the first allocated
C4_Witness ==
    \E p \in LetPairs :
        /\ JustLet(p[2])
        /\ compiler.events[p[1]].alloca
        /\ compiler.ir[Len(compiler.ir)].b = compiler.events[p[1]].ptr

AllNames == Names \cup FnNames \cup {"true", "false"}

Resolves(e, n) == Lookup(compiler.envs, e, n) # None

\* C5: inside a function body every name an enclosing environment resolves
\* resolves from the body's environment; once the function statement has
\* finished, no name a let defined in its body resolves from the restored
\* environment.
C5_ScopeResolution ==
    /\ \A k \in 1..Len(compiler.stack), n \in AllNames :
          Resolves(compiler.stack[k].entry_env, n) => Resolves(compiler.env, n)
    /\ compiler.last.kind = "FunctionEnd" =>
          \A n \in compiler.last.torn : ~Resolves(compiler.env, n)

\* a nested function statement whose body defined a name by let has finished,
\* and the enclosing body still resolves a name of its own
C5_Witness ==
    /\ compiler.last.kind = "FunctionEnd"
    /\ compiler.last.torn # {}
    /\ compiler.stack # <<>>
    /\ \E n \in Names : n \in DOMAIN compiler.envs[compiler.env].records

\* C6: only a function statement changes the (environment, builder) pair; in
\* its body the environment is a new child of the one before the statement;
\* after it both are the ones before it and the outer environment maps the
\* function's name to the function with the declared return type.
C6_StackDiscipline ==
    /\ compiler.last.kind \notin {"FunctionStatement", "FunctionEnd"} =>
          /\ compiler.env = compiler.last.env
          /\ compiler.builder = compiler.last.builder
    /\ compiler.stack # <<>> =>
          LET fr == compiler.stack[Len(compiler.stack)]
          IN  /\ compiler.envs[compiler.env].parent = Some(fr.entry_env)
              /\ compiler.env > fr.entry_envs
              /\ compiler.builder # fr.entry_builder
    /\ compiler.last.kind = "FunctionEnd" =>
          /\ compiler.env = compiler.last.entry_env
          /\ compiler.builder = compiler.last.entry_builder
          /\ compiler.last.name \in DOMAIN compiler.envs[compiler.env].records
          /\ compiler.envs[compiler.env].records[compiler.last.name]
                = [value |-> compiler.last.func,
                   type |-> TypeMap[compiler.last.declared_type]]

\* a function statement nested in another has finished after a let in its body
C6_Witness ==
    /\ compiler.last.kind = "FunctionEnd"
    /\ Len(compiler.stack) = 1
    /\ compiler.last.torn # {}
    /\ compiler.env = compiler.last.entry_env
    /\ compiler.env # 1

\* C7 as stated: when the generation of a function body fails, the environment
\* and the builder are again the ones before the function statement.
C7_RestoredOnFailure ==
    compiler.status = "raised" /\ compiler.stack # <<>> =>
        /\ compiler.env = compiler.stack[Len(compiler.stack)].entry_env
        /\ compiler.builder = compiler.stack[Len(compiler.stack)].entry_builder

\* C8 as stated: an assign statement to a name no environment defines appends
\* one diagnostic and leaves the IR and the environments as they were.
C8_UndeclaredAssignSkipped ==
    /\ compiler.last.kind = "AssignStatement"
    /\ ~compiler.last.declared
    /\ compiler.status = "running"
    => /\ compiler.errors = Append(compiler.last.errors, Undeclared(compiler.last.name))
       /\ compiler.ir = compiler.last.ir
       /\ compiler.envs = compiler.last.envs

(***************************************************************************)
(* The generator on infix expressions: expression statements over every    *)
(* operator and operands of every type a literal or a comparison has.      *)
(***************************************************************************)
Operands ==
    {IntegerLiteral(1), FloatLiteral(25), BooleanLiteral(TRUE),
     InfixExpression("<", IntegerLiteral(1), IntegerLiteral(2))}

InfixStatement ==
    /\ Ok(compiler)
    /\ compiler.visited <= MaxInfix
    /\ \E op \in Operators, l \in Operands, r \in Operands :
          compiler' = Compile(compiler, ExpressionStatement(InfixExpression(op, l, r)))
    /\ Rest

InfixNext ==
    \/ CompileFunction
    \/ InfixStatement
    \/ CompileFunctionEnd
    \/ CompileProgramEnd

SpecInfix == CompileInit /\ [][InfixNext]_vars

LiteralTypes == {Int32, Float32, Bool1}

\* what the claim says of a dispatch on the operand types lt and rt
Claimed(d) ==
    IF d.left_type = Int32 /\ d.right_type = Int32
    THEN /\ d.family = "int"
         /\ d.operator \in Arithmetic =>
               d.type = Int32 /\ d.instr \in {"add", "sub", "mul", "sdiv", "srem"}
         /\ d.operator \in Comparisons => d.type = Bool1 /\ d.instr = "icmp_signed"
    ELSE IF d.left_type = Float32 /\ d.right_type = Float32
    THEN /\ d.family = "float"
         /\ d.operator \in Arithmetic =>
               d.type = Float32 /\ d.instr \in {"fadd", "fsub", "fmul", "fdiv", "frem"}
         /\ d.operator \in Comparisons => d.type = Bool1 /\ d.instr = "fcmp_ordered"
    ELSE /\ d.family = "none"
         /\ d.instr = "none"
         /\ d.value = NoValue
         /\ d.type = NoType

\* C10 as stated: an infix expression over (Int32, Int32) selects the signed
\* integer family, over (Float32, Float32) the ordered floating family, and
\* over any other pairing of Int32, Float32 and Bool1 no instruction, no
\* value and no type.
C10_TypePairingDispatch ==
    \A i \in 1..Len(compiler.dispatched) :
        LET d == compiler.dispatched[i]
        IN  d.left_type \in LiteralTypes /\ d.right_type \in LiteralTypes => Claimed(d)

(***************************************************************************)
(* Token.py and the lexer's interface: a token has a type and a literal;    *)
(* the lexer hands out the tokens of the source one by one and EOF from     *)
(* the end on.                                                              *)
(***************************************************************************)
Token(tt, lit) == [type |-> tt, literal |-> lit]

EOFToken == Token("EOF", "")

NoToken == Token("None", "")

\* Lexer.next_token
LexerNext(lx) ==
    IF lx.cursor <= Len(lx.tokens) THEN lx.tokens[lx.cursor] ELSE EOFToken

LexerAdvance(lx) ==
    IF lx.cursor <= Len(lx.tokens) THEN [lx EXCEPT !.cursor = @ + 1] ELSE lx

(***************************************************************************)
(* Parser.py.  The Parser object is the record "parser".                    *)
(***************************************************************************)
P_LOWEST == 0

P_EQUALS == 1

P_LESSGREATER == 2

P_SUM == 3

P_PRODUCT == 4

P_EXPONENT == 5

\* a table that ranks the product operators with the sum operators
FlatPrecedences ==
    [PLUS |-> P_SUM, MINUS |-> P_SUM, SLASH |-> P_SUM,
     ASTERISK |-> P_SUM, MODULUS |-> P_SUM, POW |-> P_EXPONENT]

\* PRECEDENCES
PRECEDENCES ==
    [PLUS |-> P_SUM, MINUS |-> P_SUM, SLASH |-> P_PRODUCT,
     ASTERISK |-> P_PRODUCT, MODULUS |-> P_PRODUCT, POW |-> P_EXPONENT]

PrefixTypes == {"IDENT", "INT", "FLOAT", "LPAREN"}

InfixTypes == {"PLUS", "MINUS", "SLASH", "ASTERISK", "POW", "MODULUS"}

\* Parser.__next_token
NextToken(p) ==
    [p EXCEPT !.current_token = p.peek_token,
              !.peek_token = LexerNext(p.lexer),
              !.lexer = LexerAdvance(p.lexer)]

\* Parser.__current_token_is
CurrentTokenIs(p, tt) == p.current_token.type = tt

\* Parser.__peek_token_is
PeekTokenIs(p, tt) == p.peek_token.type = tt

\* Parser.__peek_error
PeekError(p, tt) ==
    [p EXCEPT !.errors = Append(@, <<"Expected next token to be", tt, "got",
                                     p.peek_token.type, "instead.">>)]

\* a missing prefix rule that records nothing
SilentNoPrefix(p, tt) == p

\* Parser.__no_prefix_parse_fn_error
NoPrefixParseFnError(p, tt) ==
    [p EXCEPT !.errors = Append(@, <<"No Prefix Parser Function for", tt, "found.">>)]

\* Parser.__expect_peek
ExpectPeek(p, tt) ==
    IF PeekTokenIs(p, tt)
    THEN [p |-> NextToken(p), ok |-> TRUE]
    ELSE [p |-> PeekError(p, tt), ok |-> FALSE]

\* Parser.__current_precedence
CurrentPrecedence(p) ==
    IF p.current_token.type \in DOMAIN PRECEDENCES
    THEN PRECEDENCES[p.current_token.type] ELSE P_LOWEST

\* Parser.__peek_precedence
PeekPrecedence(p) ==
    IF p.peek_token.type \in DOMAIN PRECEDENCES
    THEN PRECEDENCES[p.peek_token.type] ELSE P_LOWEST

PN(p, node) == [p |-> p, node |-> node]

\* int(literal) on the numerals the lexer reads
IntValues == ("1" :> 1) @@ ("2" :> 2) @@ ("3" :> 3) @@ ("4" :> 4) @@ ("5" :> 5)

Numeral(i) ==
    CASE i = 1 -> "1" [] i = 2 -> "2" [] i = 3 -> "3" [] i = 4 -> "4" [] OTHER -> "5"

\* float(literal)
FloatValues == ("2.5" :> 25)

\* Parser.__parse_identifier
ParseIdentifier(p) == PN(p, IdentifierLiteral(p.current_token.literal))

\* Parser.__parse_int_literal
ParseIntLiteral(p) ==
    IF p.current_token.literal \in DOMAIN IntValues
    THEN PN(p, IntegerLiteral(IntValues[p.current_token.literal]))
    ELSE PN([p EXCEPT !.errors = Append(@, <<"Could not parse", p.current_token.literal,
                                              "as an integer.">>)], NullNode)

\* Parser.__parse_float_literal
ParseFloatLiteral(p) ==
    IF p.current_token.literal \in DOMAIN FloatValues
    THEN PN(p, FloatLiteral(FloatValues[p.current_token.literal]))
    ELSE PN([p EXCEPT !.errors = Append(@, <<"Could not parse", p.current_token.literal,
                                              "as a float.">>)], NullNode)

RECURSIVE ParseExpression(_, _), InfixLoop(_, _, _), RightFirstLoop(_, _, _)

\* Parser.__parse_infix_expression
ParseInfixExpression(p, left_node) ==
    LET precedence == CurrentPrecedence(p)
        r == ParseExpression(NextToken(p), precedence)
    IN  PN(r.p, InfixExpression(p.current_token.literal, left_node, r.node))

\* Parser.__parse_grouped_expression
ParseGroupedExpression(p) ==
    LET r == ParseExpression(NextToken(p), P_LOWEST)
        e == ExpectPeek(r.p, "RPAREN")
    IN  IF ~e.ok THEN PN(e.p, NullNode) ELSE PN(e.p, r.node)

\* a loop that also takes an operator of the same precedence
RightFirstLoop(p, precedence, left_expr) ==
    IF ~PeekTokenIs(p, "SEMICOLON") /\ precedence <= PeekPrecedence(p)
          /\ p.peek_token.type \in InfixTypes
    THEN LET r == ParseInfixExpression(NextToken(p), left_expr)
         IN  RightFirstLoop(r.p, precedence, r.node)
    ELSE PN(p, left_expr)

\* Parser.__parse_expression: the while loop
InfixLoop(p, precedence, left_expr) ==
    IF ~PeekTokenIs(p, "SEMICOLON") /\ precedence < PeekPrecedence(p)
    THEN IF p.peek_token.type \notin InfixTypes
         THEN PN(p, left_expr)
         ELSE LET r == ParseInfixExpression(NextToken(p), left_expr)
              IN  InfixLoop(r.p, precedence, r.node)
    ELSE PN(p, left_expr)

\* Parser.__parse_expression
ParseExpression(p, precedence) ==
    IF p.current_token.type \notin PrefixTypes
    THEN PN(NoPrefixParseFnError(p, p.current_token.type), NullNode)
    ELSE LET left == CASE p.current_token.type = "IDENT" -> ParseIdentifier(p)
                       [] p.current_token.type = "INT" -> ParseIntLiteral(p)
                       [] p.current_token.type = "FLOAT" -> ParseFloatLiteral(p)
                       [] p.current_token.type = "LPAREN" -> ParseGroupedExpression(p)
         IN  InfixLoop(left.p, precedence, left.node)

RECURSIVE SkipToSemicolon(_)
\* Parser.__parse_let_statement: the closing while loop
SkipToSemicolon(p) ==
    IF ~CurrentTokenIs(p, "SEMICOLON") /\ ~CurrentTokenIs(p, "EOF")
    THEN SkipToSemicolon(NextToken(p))
    ELSE p

\* Parser.__parse_let_statement
ParseLetStatement(p) ==
    LET e1 == ExpectPeek(p, "IDENT")
    IN  IF ~e1.ok THEN PN(e1.p, NullNode)
        ELSE
        LET e2 == ExpectPeek(e1.p, "COLON")
        IN  IF ~e2.ok THEN PN(e2.p, NullNode)
            ELSE
            LET e3 == ExpectPeek(e2.p, "TYPE")
            IN  IF ~e3.ok THEN PN(e3.p, NullNode)
                ELSE
                LET e4 == ExpectPeek(e3.p, "EQ")
                IN  IF ~e4.ok THEN PN(e4.p, NullNode)
                    ELSE
                    LET r == ParseExpression(NextToken(e4.p), P_LOWEST)
                    IN  PN(SkipToSemicolon(r.p),
                           LetStatement(IdentifierLiteral(e1.p.current_token.literal),
                                        e3.p.current_token.literal, r.node))

\* Parser.__parse_return_statement
ParseReturnStatement(p) ==
    LET r == ParseExpression(NextToken(p), P_LOWEST)
        e == ExpectPeek(r.p, "SEMICOLON")
    IN  IF ~e.ok THEN PN(e.p, NullNode) ELSE PN(e.p, ReturnStatement(r.node))

\* an expression statement that leaves its semicolon unread
UnreadSemicolonStatement(p) ==
    LET r == ParseExpression(p, P_LOWEST)
    IN  PN(r.p, ExpressionStatement(r.node))

\* Parser.__parse_expression_statement
ParseExpressionStatement(p) ==
    LET r == ParseExpression(p, P_LOWEST)
    IN  PN(IF PeekTokenIs(r.p, "SEMICOLON") THEN NextToken(r.p) ELSE r.p,
           ExpressionStatement(r.node))

RECURSIVE ParseStatement(_), BlockLoop(_, _)

\* Parser.__parse_block_statement
ParseBlockStatement(p) == BlockLoop(NextToken(p), <<>>)

\* Parser.__parse_function_statement
ParseFunctionStatement(p) ==
    LET e1 == ExpectPeek(p, "IDENT")
    IN  IF ~e1.ok THEN PN(e1.p, NullNode)
        ELSE
        LET e2 == ExpectPeek(e1.p, "LPAREN")
        IN  IF ~e2.ok THEN PN(e2.p, NullNode)
            ELSE
            LET e3 == ExpectPeek(e2.p, "RPAREN")
            IN  IF ~e3.ok THEN PN(e3.p, NullNode)
                ELSE
                LET e4 == ExpectPeek(e3.p, "ARROW")
                IN  IF ~e4.ok THEN PN(e4.p, NullNode)
                    ELSE
                    LET e5 == ExpectPeek(e4.p, "TYPE")
                    IN  IF ~e5.ok THEN PN(e5.p, NullNode)
                        ELSE
                        LET e6 == ExpectPeek(e5.p, "LBRACE")
                        IN  IF ~e6.ok THEN PN(e6.p, NullNode)
                            ELSE
                            LET b == ParseBlockStatement(e6.p)
                            IN  PN(b.p, FunctionStatement(
                                           IdentifierLiteral(e1.p.current_token.literal),
                                           e5.p.current_token.literal, b.node))

\* Parser.__parse_block_statement: the while loop
BlockLoop(p, statements) ==
    IF ~CurrentTokenIs(p, "RBRACE") /\ ~CurrentTokenIs(p, "EOF")
    THEN LET r == ParseStatement(p)
         IN  BlockLoop(NextToken([r.p EXCEPT !.skipped =
                                      IF r.node = NullNode THEN @ + 1 ELSE @]),
                       IF r.node # NullNode THEN Append(statements, r.node)
                       ELSE statements)
    ELSE PN(p, BlockStatement(statements))

\* Parser.__parse_statement
ParseStatement(p) ==
    CASE p.current_token.type = "LET" -> ParseLetStatement(p)
      [] p.current_token.type = "FN" -> ParseFunctionStatement(p)
      [] p.current_token.type = "RETURN" -> ParseReturnStatement(p)
      [] OTHER -> ParseExpressionStatement(p)

\* Parser.__init__
NewParser(tokens) ==
    NextToken(NextToken([lexer |-> [tokens |-> tokens, cursor |-> 1],
                         errors |-> <<>>,
                         current_token |-> NoToken,
                         peek_token |-> NoToken,
                         program |-> Program(<<>>),
                         returned |-> <<>>,
                         skipped |-> 0,
                         status |-> "parsing"]))

\* Parser.parse_program: one turn of the while loop
ProgramTurn(p) ==
    LET r == ParseStatement(p)
    IN  [NextToken(r.p) EXCEPT
            !.program.statements = IF r.node # NullNode THEN Append(@, r.node) ELSE @,
            !.returned = Append(@, r.node),
            !.skipped = IF r.node = NullNode THEN @ + 1 ELSE @]

(***************************************************************************)
(* The parser on its own, on token streams of the lexer.                   *)
(***************************************************************************)
Symbols ==
    {Token("PLUS", "+"), Token("MINUS", "-"), Token("ASTERISK", "*"),
     Token("SLASH", "/"), Token("POW", "^"), Token("MODULUS", "%"),
     Token("EQ", "="), Token("COLON", ":"), Token("SEMICOLON", ";"),
     Token("ARROW", "->"), Token("LPAREN", "("), Token("RPAREN", ")"),
     Token("LBRACE", "{"), Token("RBRACE", "}"), Token("LET", "let"),
     Token("FN", "fn"), Token("RETURN", "return"), Token("ILLEGAL", "?")}

Alphabet ==
    Symbols \cup {Token("INT", "1"), Token("IDENT", "a"), Token("FLOAT", "2.5"),
                  Token("TYPE", "int")}

OperatorTokens == {t \in Symbols : t.type \in InfixTypes}

\* the operands the i-th place of a chain may hold
ChainOperands(i) == {Token("INT", Numeral(i)), Token("IDENT", "a"), Token("FLOAT", "2.5")}

RECURSIVE Chains(_)
\* operand (operator operand)^k
Chains(k) ==
    IF k = 0 THEN {<<o>> : o \in ChainOperands(1)}
    ELSE {s \o <<op, o>> : s \in Chains(k - 1), op \in OperatorTokens,
                           o \in ChainOperands(k + 1)}

Streams(n) == UNION {[1..m -> Alphabet] : m \in 0..n}

ChainSources ==
    UNION {Chains(k) \cup {s \o <<Token("SEMICOLON", ";")>> : s \in Chains(k)} :
           k \in 1..MaxOps}

ParseSources == Streams(MaxTokens) \cup ChainSources

ParseInit ==
    /\ \E tokens \in ParseSources : parser = NewParser(tokens)
    /\ compiler = IdleCompiler
    /\ driver = IdleDriver
    /\ heap = <<>>
    /\ looked = NotLooked

Parsing == parser.status = "parsing"

ParseRest == UNCHANGED <<heap, looked, compiler, driver>>

ParseLet ==
    /\ Parsing
    /\ CurrentTokenIs(parser, "LET")
    /\ parser' = ProgramTurn(parser)
    /\ ParseRest

ParseFunction ==
    /\ Parsing
    /\ CurrentTokenIs(parser, "FN")
    /\ parser' = ProgramTurn(parser)
    /\ ParseRest

ParseReturn ==
    /\ Parsing
    /\ CurrentTokenIs(parser, "RETURN")
    /\ parser' = ProgramTurn(parser)
    /\ ParseRest

ParseExpressionTurn ==
    /\ Parsing
    /\ parser.current_token.type \notin {"LET", "FN", "RETURN", "EOF"}
    /\ parser' = ProgramTurn(parser)
    /\ ParseRest

\* Parser.parse_program: the loop is over, the program is returned
ParseEnd ==
    /\ Parsing
    /\ CurrentTokenIs(parser, "EOF")
    /\ parser' = [parser EXCEPT !.status = "done"]
    /\ ParseRest

ParseNext ==
    \/ ParseLet
    \/ ParseFunction
    \/ ParseReturn
    \/ ParseExpressionTurn
    \/ ParseEnd

SpecParse == ParseInit /\ [][ParseNext]_vars

\* the node an operand token stands for
Operand(t) ==
    CASE t.type = "INT" -> IntegerLiteral(IntValues[t.literal])
      [] t.type = "FLOAT" -> FloatLiteral(FloatValues[t.literal])
      [] t.type = "IDENT" -> IdentifierLiteral(t.literal)

\* SUM < PRODUCT < EXPONENT
Rank(op) ==
    CASE op \in {"+", "-"} -> 1
      [] op \in {"*", "/", "%"} -> 2
      [] op = "^" -> 3

\* the input is a OP1 b OP2 c, with or without a closing semicolon
TwoOperators(ts) ==
    /\ Len(ts) \in {5, 6}
    /\ \A i \in {1, 3, 5} : ts[i].type \in {"INT", "FLOAT", "IDENT"}
    /\ \A i \in {2, 4} : ts[i].type \in InfixTypes
    /\ Len(ts) = 6 => ts[6].type = "SEMICOLON"

NestRight(ts) ==
    InfixExpression(ts[2].literal, Operand(ts[1]),
                    InfixExpression(ts[4].literal, Operand(ts[3]), Operand(ts[5])))

NestLeft(ts) ==
    InfixExpression(ts[4].literal,
                    InfixExpression(ts[2].literal, Operand(ts[1]), Operand(ts[3])),
                    Operand(ts[5]))

FirstExpression == parser.returned[1].expr

\* C1: when a OP1 b OP2 c has been parsed and OP2 ranks strictly above OP1,
\* the expression is OP1(a, OP2(b, c)) and no diagnostic was recorded.
C1_PrecedenceNesting ==
    LET ts == parser.lexer.tokens
    IN  (TwoOperators(ts) /\ parser.returned # <<>>
            /\ Rank(ts[4].literal) > Rank(ts[2].literal))
        => /\ FirstExpression = NestRight(ts)
           /\ parser.errors = <<>>

C1_Witness ==
    /\ parser.status = "done"
    /\ parser.lexer.tokens = <<Token("INT", "1"), Token("PLUS", "+"), Token("INT", "2"),
                               Token("ASTERISK", "*"), Token("INT", "3")>>
    /\ parser.program.statements =
          <<ExpressionStatement(
              InfixExpression("+", IntegerLiteral(1),
                  InfixExpression("*", IntegerLiteral(2), IntegerLiteral(3))))>>

\* C2: when a OP1 b OP2 c has been parsed and OP1 and OP2 rank equal, the
\* expression is the left-nested OP2(OP1(a, b), c), not the right-nested one.
C2_LeftAssociative ==
    LET ts == parser.lexer.tokens
    IN  (TwoOperators(ts) /\ parser.returned # <<>>
            /\ Rank(ts[4].literal) = Rank(ts[2].literal))
        => /\ FirstExpression = NestLeft(ts)
           /\ FirstExpression # NestRight(ts)

C2_Witness ==
    /\ parser.status = "done"
    /\ parser.lexer.tokens = <<Token("INT", "1"), Token("MINUS", "-"), Token("INT", "2"),
                               Token("MINUS", "-"), Token("INT", "3")>>
    /\ parser.program.statements =
          <<ExpressionStatement(
              InfixExpression("-",
                  InfixExpression("-", IntegerLiteral(1), IntegerLiteral(2)),
                  IntegerLiteral(3)))>>

(***************************************************************************)
(* main.py: lexer, parser, generator, verifier and execution engine in a   *)
(* row.  The driver is the record "driver".                                 *)
(***************************************************************************)
\* what is left of the program: statements, and the ends of function bodies
FunctionEnd == [type |-> "FunctionEnd"]

\* Compiler.__visit_program, __visit_block_statement: the next statement of
\* the loop; the body of a function statement comes before what follows it
CompileHead(c) ==
    LET node == Head(c.work)
        entered == Compile(c, node)
    IN  [entered EXCEPT
            !.work = IF node.type = "FunctionStatement" /\ Ok(entered)
                     THEN node.body.statements \o <<FunctionEnd>> \o Tail(c.work)
                     ELSE Tail(c.work)]

\* a run that goes on although the parser has recorded diagnostics
IgnoresParserErrors(p) == FALSE

\* main.py: len(p.errors) > 0
HasParserErrors(p) == Len(p.errors) > 0

ExpressionSources ==
    {<<Token("INT", "1")>>, <<Token("IDENT", "a")>>,
     <<Token("INT", "1"), Token("PLUS", "+"), Token("IDENT", "a")>>}

StatementSources ==
    {<<Token("RETURN", "return")>> \o e \o <<Token("SEMICOLON", ";")>> :
        e \in ExpressionSources}
    \cup {<<Token("LET", "let"), Token("IDENT", "a"), Token("COLON", ":"),
            Token("TYPE", "int"), Token("EQ", "=")>> \o e \o <<Token("SEMICOLON", ";")>> :
        e \in ExpressionSources}
    \cup {e \o <<Token("SEMICOLON", ";")>> : e \in ExpressionSources}

RECURSIVE BodySources(_)
BodySources(n) ==
    IF n = 0 THEN {<<>>}
    ELSE BodySources(n - 1)
         \cup {b \o st : b \in BodySources(n - 1), st \in StatementSources}

FunctionSources ==
    {<<Token("FN", "fn"), Token("IDENT", "f"), Token("LPAREN", "("),
       Token("RPAREN", ")"), Token("ARROW", "->"), Token("TYPE", rt),
       Token("LBRACE", "{")>> \o b \o <<Token("RBRACE", "}")>> :
        rt \in ReturnTypes, b \in BodySources(MaxBody)}

\* the stream without its i-th token
Without(ts, i) == SubSeq(ts, 1, i - 1) \o SubSeq(ts, i + 1, Len(ts))

LeadSources ==
    {<<>>,
     <<Token("INT", "1"), Token("SEMICOLON", ";")>>,
     <<Token("RETURN", "return"), Token("INT", "1"), Token("SEMICOLON", ";")>>,
     <<Token("LET", "let"), Token("IDENT", "a"), Token("COLON", ":"),
       Token("TYPE", "int"), Token("EQ", "="), Token("INT", "1"),
       Token("SEMICOLON", ";")>>}

DriverSources ==
    {l \o f : l \in LeadSources, f \in FunctionSources}
    \cup UNION {{Without(f, i) : i \in 1..Len(f)} : f \in FunctionSources}

DriverInit ==
    /\ \E tokens \in DriverSources : parser = NewParser(tokens)
    /\ driver = [pc |-> "parse", printed |-> <<>>, exit_code |-> None, engine |-> FALSE]
    /\ compiler = IdleCompiler
    /\ heap = <<>>
    /\ looked = NotLooked

DriverRest == UNCHANGED <<heap, looked>>

\* main.py: the parser's diagnostics are printed and the process exits
DriverReport ==
    /\ driver.pc = "parse"
    /\ parser.status = "done"
    /\ HasParserErrors(parser)
    /\ driver' = [driver EXCEPT !.pc = "exited", !.printed = parser.errors,
                                !.exit_code = Some(1)]
    /\ UNCHANGED <<parser, compiler>>
    /\ DriverRest

\* main.py: c = Compiler(); c.compile(node=program) is entered
DriverCompile ==
    /\ driver.pc = "parse"
    /\ parser.status = "done"
    /\ ~HasParserErrors(parser)
    /\ compiler' = [NewCompiler EXCEPT !.work = parser.program.statements]
    /\ driver' = [driver EXCEPT !.pc = "compiling"]
    /\ UNCHANGED parser
    /\ DriverRest

\* c.compile: one statement of the program or of a function body
DriverStatement ==
    /\ driver.pc = "compiling"
    /\ Ok(compiler)
    /\ compiler.work # <<>>
    /\ Head(compiler.work).type # "FunctionEnd"
    /\ compiler' = CompileHead(compiler)
    /\ UNCHANGED <<parser, driver>>
    /\ DriverRest

\* c.compile: the body of a function statement is done
DriverFunctionEnd ==
    /\ driver.pc = "compiling"
    /\ Ok(compiler)
    /\ compiler.work # <<>>
    /\ Head(compiler.work).type = "FunctionEnd"
    /\ compiler' = [Leave(compiler) EXCEPT !.work = Tail(compiler.work)]
    /\ UNCHANGED <<parser, driver>>
    /\ DriverRest

\* c.compile returns
DriverCompiled ==
    /\ driver.pc = "compiling"
    /\ Ok(compiler)
    /\ compiler.work = <<>>
    /\ compiler' = [compiler EXCEPT !.status = "done"]
    /\ driver' = [driver EXCEPT !.pc = "compiled"]
    /\ UNCHANGED parser
    /\ DriverRest

\* an exception of the generator ends the process
DriverCrash ==
    /\ driver.pc = "compiling"
    /\ ~Ok(compiler)
    /\ driver' = [driver EXCEPT !.pc = "crashed", !.exit_code = Some(1)]
    /\ UNCHANGED <<parser, compiler>>
    /\ DriverRest

\* main.py: parse_assembly and verify accept the module or raise
DriverVerify ==
    /\ driver.pc = "compiled"
    /\ \E accepted \in BOOLEAN :
          driver' = [driver EXCEPT
                        !.pc = IF accepted THEN "verified" ELSE "crashed",
                        !.exit_code = IF accepted THEN None ELSE Some(1)]
    /\ UNCHANGED <<parser, compiler>>
    /\ DriverRest

\* main.py: the execution engine is created and the compiled main is called
DriverRun ==
    /\ driver.pc = "verified"
    /\ driver' = [driver EXCEPT !.pc = "ran", !.engine = TRUE]
    /\ UNCHANGED <<parser, compiler>>
    /\ DriverRest

DriverNext ==
    \/ ParseLet
    \/ ParseFunction
    \/ ParseReturn
    \/ ParseExpressionTurn
    \/ ParseEnd
    \/ DriverReport
    \/ DriverCompile
    \/ DriverStatement
    \/ DriverFunctionEnd
    \/ DriverCompiled
    \/ DriverCrash
    \/ DriverVerify
    \/ DriverRun

SpecDriver == DriverInit /\ [][DriverNext]_vars

Diagnosed ==
    \/ parser.errors # <<>>
    \/ compiler # IdleCompiler /\ compiler.errors # <<>>

EngineInvoked == driver.engine

DriverGeneratorSilent == compiler # IdleCompiler => compiler.errors = <<>>

(***************************************************************************)
(* The parser on whole statements: programs of the accepted grammar, and   *)
(* let statements that deviate from it in one place.                       *)
(***************************************************************************)
LetHead ==
    <<Token("LET", "let"), Token("IDENT", "a"), Token("COLON", ":"),
      Token("TYPE", "int"), Token("EQ", "=")>>

ExactLets == {LetHead \o e \o <<Token("SEMICOLON", ";")>> : e \in ExpressionSources}

\* the stream with t in the place of its i-th token
Replaced(ts, i, t) == SubSeq(ts, 1, i - 1) \o <<t>> \o SubSeq(ts, i + 1, Len(ts))

\* the stream with t put before its i-th token
Inserted(ts, i, t) == SubSeq(ts, 1, i - 1) \o <<t>> \o SubSeq(ts, i, Len(ts))

LetSources ==
    ExactLets
    \cup UNION {{Without(l, i) : i \in 2..Len(l)} : l \in ExactLets}
    \cup UNION {{Replaced(l, i, t) : i \in 2..Len(l), t \in Alphabet} : l \in ExactLets}
    \cup UNION {{Inserted(l, i, t) : i \in 2..(Len(l) + 1), t \in Alphabet} : l \in ExactLets}

FunctionHead(rt) ==
    <<Token("FN", "fn"), Token("IDENT", "f"), Token("LPAREN", "("),
      Token("RPAREN", ")"), Token("ARROW", "->"), Token("TYPE", rt),
      Token("LBRACE", "{")>>

\* functions of at most one statement, and a function inside a function
TopFunctions ==
    {FunctionHead(rt) \o b \o <<Token("RBRACE", "}")>> :
        rt \in ReturnTypes, b \in {<<>>} \cup StatementSources}
    \cup {FunctionHead("int") \o FunctionHead("float") \o b \o <<Token("RBRACE", "}")>>
              \o b \o <<Token("RBRACE", "}")>> :
            b \in {<<>>, <<Token("RETURN", "return"), Token("INT", "1"),
                           Token("SEMICOLON", ";")>>}}

\* statements over a float and over grouped expressions
GroupedSources ==
    {<<Token("LPAREN", "("), Token("INT", "1"), Token("RPAREN", ")")>>,
     <<Token("FLOAT", "2.5"), Token("ASTERISK", "*"), Token("LPAREN", "("),
       Token("IDENT", "a"), Token("MINUS", "-"), Token("INT", "1"), Token("RPAREN", ")")>>}

GroupedStatements ==
    {<<Token("RETURN", "return")>> \o e \o <<Token("SEMICOLON", ";")>> :
        e \in GroupedSources}
    \cup {LetHead \o e \o <<Token("SEMICOLON", ";")>> : e \in GroupedSources}
    \cup {e \o <<Token("SEMICOLON", ";")>> : e \in GroupedSources}

RECURSIVE ProgramBodies(_)
\* up to n top-level statements: let, return, expression and fn statements
ProgramBodies(n) ==
    IF n = 0 THEN {<<>>}
    ELSE ProgramBodies(n - 1)
         \cup {b \o st : b \in ProgramBodies(n - 1),
                         st \in StatementSources \cup GroupedStatements
                                   \cup TopFunctions}

ProgramSources == ProgramBodies(MaxTop) \cup FunctionSources

ProgramInit ==
    /\ \E tokens \in ProgramSources \cup LetSources : parser = NewParser(tokens)
    /\ compiler = IdleCompiler
    /\ driver = IdleDriver
    /\ heap = <<>>
    /\ looked = NotLooked

SpecProgram == ProgramInit /\ [][ParseNext]_vars

RECURSIVE IsExpression(_)
\* the expression grammar: operand, ( expression ), expression operator expression
IsExpression(ts) ==
    \/ Len(ts) = 1 /\ ts[1].type \in {"INT", "FLOAT", "IDENT"}
    \/ /\ Len(ts) >= 3
       /\ ts[1].type = "LPAREN"
       /\ ts[Len(ts)].type = "RPAREN"
       /\ IsExpression(SubSeq(ts, 2, Len(ts) - 1))
    \/ \E i \in 2..(Len(ts) - 1) :
          /\ ts[i].type \in InfixTypes
          /\ IsExpression(SubSeq(ts, 1, i - 1))
          /\ IsExpression(SubSeq(ts, i + 1, Len(ts)))

\* let IDENT : TYPE = EXPR ;
ExactLet(ts) ==
    /\ Len(ts) >= 7
    /\ <<ts[1].type, ts[2].type, ts[3].type, ts[4].type, ts[5].type>>
          = <<"LET", "IDENT", "COLON", "TYPE", "EQ">>
    /\ ts[Len(ts)].type = "SEMICOLON"
    /\ IsExpression(SubSeq(ts, 6, Len(ts) - 1))

\* the stream opens with a let statement of the grammar, closed by its first ;
OpensWithExactLet(ts) ==
    \E n \in 1..Len(ts) :
        /\ ts[n].type = "SEMICOLON"
        /\ \A i \in 1..(n - 1) : ts[i].type # "SEMICOLON"
        /\ ExactLet(SubSeq(ts, 1, n))

\* C11: when a stream opens with the let keyword and does not go on as
\* let IDENT : TYPE = EXPR ; then the let statement's parse has recorded a
\* diagnostic and returned null: no LetStatement comes of it.
C11_LetGrammarStrict ==
    LET ts == parser.lexer.tokens
    IN  (Len(ts) >= 1 /\ ts[1].type = "LET" /\ parser.returned # <<>>
            /\ ~OpensWithExactLet(ts))
        => /\ parser.returned[1] = NullNode
           /\ parser.errors # <<>>

RECURSIVE CountTop(_, _, _)
\* the statements of a source that end outside every block: a ; at depth 0
\* or the } that closes a function at depth 0
CountTop(ts, i, depth) ==
    IF i > Len(ts) THEN 0
    ELSE CASE ts[i].type = "LBRACE" -> CountTop(ts, i + 1, depth + 1)
           [] ts[i].type = "RBRACE" ->
                 (IF depth = 1 THEN 1 ELSE 0) + CountTop(ts, i + 1, depth - 1)
           [] ts[i].type = "SEMICOLON" ->
                 (IF depth = 0 THEN 1 ELSE 0) + CountTop(ts, i + 1, depth)
           [] OTHER -> CountTop(ts, i + 1, depth)

TopLevelCount(ts) == CountTop(ts, 1, 0)

\* C12: when parse_program has returned on the token stream of a well-formed
\* program, the Program holds as many statements as the source has top-level
\* statements and the parser has recorded no diagnostic.
C12_WellFormedProgram ==
    (parser.status = "done" /\ parser.lexer.tokens \in ProgramSources)
    => /\ Len(parser.program.statements) = TopLevelCount(parser.lexer.tokens)
       /\ parser.errors = <<>>

C12_Witness ==
    /\ parser.status = "done"
    /\ parser.lexer.tokens \in ProgramSources
    /\ Len(parser.program.statements) = 2
    /\ parser.program.statements[1].type = "LetStatement"
    /\ parser.program.statements[2].type = "FunctionStatement"
    /\ Len(parser.program.statements[2].body.statements) = 1
    /\ parser.errors = <<>>

(***************************************************************************)
(* The let statement on a name its own environment does not hold.          *)
(***************************************************************************)
\* a let statement has just been generated without an exception
JustGeneratedLet ==
    /\ compiler.status = "running"
    /\ compiler.last.kind = "LetStatement"
    /\ compiler.events # <<>>

\* the current environment's own map did not define the name
NewInOwnMap ==
    compiler.last.name \notin DOMAIN compiler.last.envs[compiler.last.env].records

\* storage was allocated, the value stored into it, and the pair registered
AllocatedAndRegistered ==
    LET n == Len(compiler.ir)
        ev == compiler.events[Len(compiler.events)]
        own == compiler.envs[compiler.env].records
    IN  /\ ev.alloca
        /\ ev.ptr.kind = "inst"
        /\ ev.ptr.id > Len(compiler.last.ir)
        /\ compiler.ir[ev.ptr.id].op = "alloca"
        /\ compiler.ir[n].op = "store"
        /\ compiler.ir[n].b = ev.ptr
        /\ compiler.last.name \in DOMAIN own
        /\ own[compiler.last.name] = [value |-> ev.ptr, type |-> compiler.ir[n].a.type]

\* C13: when a let statement has been generated for a name that the current
\* environment's own map did not define, also if an enclosing environment
\* defines it, storage was allocated, the value stored into it and
\* (storage, type) registered in the current environment.
C13_LetOnNewName == (JustGeneratedLet /\ NewInOwnMap) => AllocatedAndRegistered

(***************************************************************************)
(* The parser on any stream: short streams of every token, operator        *)
(* chains, and let and fn statements with one token lost, changed or added.*)
(***************************************************************************)
FunctionDeviants ==
    UNION {{Without(f, i) : i \in 2..Len(f)} : f \in TopFunctions}
    \cup UNION {{Replaced(f, i, t) : i \in 2..Len(f), t \in Alphabet} : f \in TopFunctions}

AnySources == ParseSources \cup LetSources \cup FunctionDeviants

StreamsInit ==
    /\ \E tokens \in AnySources : parser = NewParser(tokens)
    /\ compiler = IdleCompiler
    /\ driver = IdleDriver
    /\ heap = <<>>
    /\ looked = NotLooked

SpecStreams == StreamsInit /\ [][ParseNext]_vars

RECURSIVE HasAbsent(_)
\* the node or a node below it is absent
HasAbsent(node) ==
    CASE node.type = "None" -> TRUE
      [] node.type = "ExpressionStatement" -> HasAbsent(node.expr)
      [] node.type = "LetStatement" -> HasAbsent(node.value)
      [] node.type = "ReturnStatement" -> HasAbsent(node.return_value)
      [] node.type = "InfixExpression" ->
            HasAbsent(node.left_node) \/ HasAbsent(node.right_node)
      [] node.type = "FunctionStatement" -> HasAbsent(node.body)
      [] node.type \in {"BlockStatement", "Program"} ->
            \E i \in 1..Len(node.statements) : HasAbsent(node.statements[i])
      [] OTHER -> FALSE

\* C14: when parse_program has returned and a statement's parse gave null and
\* was skipped, at the top level or in a block, or the Program holds an absent
\* expression anywhere, the parser has recorded a diagnostic.
C14_NoSilentAbsentNode ==
    (parser.status = "done" /\ (parser.skipped > 0 \/ HasAbsent(parser.program)))
    => parser.errors # <<>>

\* a statement was skipped inside a block and an expression is absent
C14_Witness ==
    /\ parser.status = "done"
    /\ parser.skipped > 0
    /\ \A i \in 1..Len(parser.returned) : parser.returned[i] # NullNode
    /\ HasAbsent(parser.program)
    /\ parser.errors # <<>>

=============================================================================
